---- MODULE Spec2Model ----
(***************************************************************************)
(* Bar-cut optimizer: the splicer (apply_engineering_splicing) followed by *)
(* the First-Fit-Decreasing cutting optimizer (optimize_cutting), as run   *)
(* by the "Optimize Cutting" button of app.py.                             *)
(*                                                                         *)
(* Lengths are exact fixed-point numbers: one unit is 1/UnitsPerMeter of a *)
(* metre (a millimetre).  The Python code computes in binary floating      *)
(* point; the model computes the same expressions exactly.  Percentages    *)
(* are kept as exact fractions <<numerator, denominator>>.  Weights are in *)
(* gram-per-metre times length units.                                      *)
(***************************************************************************)
EXTENDS Integers, Sequences, FiniteSets, TLC

\* ------------------------------------------------------------------ bounds
MaxReqs == 2
MaxSegs == 4

\* --------------------------------------------------------------- constants
UnitsPerMeter == 1000

WEIGHT_MAP ==
  (6 :> 222) @@ (9 :> 499) @@ (10 :> 617) @@ (12 :> 888) @@ (16 :> 1578) @@
  (20 :> 2466) @@ (25 :> 3853) @@ (28 :> 4830) @@ (32 :> 6310)

STANDARD_STOCK_LENGTHS == {10 * UnitsPerMeter, 12 * UnitsPerMeter}

\* ------------------------------------------------------------ input domains
BarMarks == {"A", "B"}
Diameters == {12, 250}
CutLengths == {4500, 5000, 10000, 15000}
Quantities == {1, 2}
Tolerances == {0, 5}
LapFactors == {40}

\* The identifier of a requirement is modelled as the tuple of the parts of the
\* string: <<name>> for an input requirement, and
\* <<name, " (", idx, "/", total, ")">> for f"{bar_mark} ({idx}/{total})".
Requirements ==
  [bar_mark : {<<m>> : m \in BarMarks}, diameter : Diameters,
   cut_length : CutLengths, quantity : Quantities]

SeqsUpTo(S, n) == UNION {[1..k -> S] : k \in 0..n}

\* Identifiers are opaque to both functions, so exchanging "A" and "B" maps a
\* run to a run: only the lists whose first identifier is "A" are enumerated.
InputLists ==
  {data \in SeqsUpTo(Requirements, MaxReqs) :
     data = <<>> \/ data[1].bar_mark = <<"A">>}

\* ------------------------------------------------------------------- state
VARIABLES
  cutting_data, stock_length, cutting_tolerance_mm, lap_factor, enable_splicing,
  pc,
  \* apply_engineering_splicing
  processed_data, splicing_info, item_idx, pieces, remaining_length, first_piece,
  \* optimize_cutting
  data_to_optimize, group_order, diameter_groups, dia_idx,
  standard_items, oversized_items, pos, stock_bars, stock_counter,
  all_cutting_plans, procurement_summary,
  total_waste_all, total_stock_used_all, total_weight_all,
  reusable, scrap

inputs == <<cutting_data, stock_length, cutting_tolerance_mm, lap_factor, enable_splicing>>
splicer == <<processed_data, splicing_info, item_idx, pieces, remaining_length, first_piece>>
grouping == <<group_order, diameter_groups>>
packing == <<standard_items, oversized_items, pos, stock_bars, stock_counter>>
totals == <<all_cutting_plans, procurement_summary,
            total_waste_all, total_stock_used_all, total_weight_all>>
remnants == <<reusable, scrap>>
vars == <<inputs, pc, splicer, data_to_optimize, grouping, dia_idx, packing,
          totals, remnants>>

\* ------------------------------------------------------------------ helpers
RECURSIVE SumSeq(_)
SumSeq(s) == IF s = <<>> THEN 0 ELSE Head(s) + SumSeq(Tail(s))

\* cutting_tolerance_mm / 1000.0 (metres), in length units
cutting_tolerance == (cutting_tolerance_mm * UnitsPerMeter) \div 1000

\* ------------------------------------------------- apply_engineering_splicing
\* Mutant: the boundary taken as >= instead of >.
NeedsSplicing_Inclusive(length) == length >= stock_length

NeedsSplicing(length) == ~(length <= stock_length)

\* Mutant: the lap divided by 100 instead of 1000.
LapLength_Centi(diameter) == (lap_factor * diameter * UnitsPerMeter) \div 100

LapLength(diameter) == (lap_factor * diameter * UnitsPerMeter) \div 1000

\* Mutant: the final-segment test made without the lap.
IsFinalSegment_NoLap(rem, lap) == rem <= stock_length

IsFinalSegment(rem, lap) == rem + lap <= stock_length

\* Mutant: an interior segment counted at full stock length (lap forgotten).
NextPiece_LapForgotten(first, rem, lap) ==
  IF first THEN [cut |-> stock_length, effective |-> stock_length]
  ELSE IF IsFinalSegment(rem, lap)
       THEN [cut |-> rem + lap, effective |-> rem]
       ELSE [cut |-> stock_length, effective |-> stock_length]

\* Mutant: the interior segment's effective length with the sign slipped.
NextPiece_SignSlip(first, rem, lap) ==
  IF first THEN [cut |-> stock_length, effective |-> stock_length]
  ELSE IF IsFinalSegment(rem, lap)
       THEN [cut |-> rem + lap, effective |-> rem]
       ELSE [cut |-> stock_length, effective |-> lap - stock_length]

\* One iteration of the splitting loop: the piece appended.
NextPiece(first, rem, lap) ==
  IF first THEN [cut |-> stock_length, effective |-> stock_length]
  ELSE IF IsFinalSegment(rem, lap)
       THEN [cut |-> rem + lap, effective |-> rem]
       ELSE [cut |-> stock_length, effective |-> stock_length - lap]

\* f"{bar_mark} ({idx}/{total_pieces})"
SegmentMark(bar_mark, idx, total_pieces) ==
  bar_mark \o <<" (", idx, "/", total_pieces, ")">>

SegmentNote(bar_mark, idx, lap) ==
  IF idx > 1 THEN <<"Spliced from", bar_mark, "Lap", lap>>
  ELSE <<"Spliced from", bar_mark>>

\* Mutant: the segments numbered from 0 (enumerate without a start).
SegmentRecords_FromZero(item, ps, lap) ==
  [idx \in 1..Len(ps) |->
     [bar_mark |-> SegmentMark(item.bar_mark, idx - 1, Len(ps)),
      diameter |-> item.diameter,
      cut_length |-> ps[idx].cut,
      quantity |-> item.quantity,
      note |-> SegmentNote(item.bar_mark, idx - 1, lap)]]

SegmentRecords(item, ps, lap) ==
  [idx \in 1..Len(ps) |->
     [bar_mark |-> SegmentMark(item.bar_mark, idx, Len(ps)),
      diameter |-> item.diameter,
      cut_length |-> ps[idx].cut,
      quantity |-> item.quantity,
      note |-> SegmentNote(item.bar_mark, idx, lap)]]

CurItem == cutting_data[item_idx]

\* Mutant: the pass-through record put in front of the output (insert(0, ...)).
SplicePassThrough_InFront ==
  /\ pc = "splice"
  /\ item_idx <= Len(cutting_data)
  /\ ~NeedsSplicing(CurItem.cut_length)
  /\ processed_data' = <<CurItem>> \o processed_data
  /\ item_idx' = item_idx + 1
  /\ UNCHANGED <<inputs, pc, splicing_info, pieces, remaining_length, first_piece,
                 data_to_optimize, grouping, dia_idx, packing, totals, remnants>>

SplicePassThrough ==
  /\ pc = "splice"
  /\ item_idx <= Len(cutting_data)
  /\ ~NeedsSplicing(CurItem.cut_length)
  /\ processed_data' = Append(processed_data, CurItem)
  /\ item_idx' = item_idx + 1
  /\ UNCHANGED <<inputs, pc, splicing_info, pieces, remaining_length, first_piece,
                 data_to_optimize, grouping, dia_idx, packing, totals, remnants>>

\* Mutant: total_spliced counting requirement lines instead of units.
SpliceBegin_CountsLines ==
  /\ pc = "splice"
  /\ item_idx <= Len(cutting_data)
  /\ NeedsSplicing(CurItem.cut_length)
  /\ splicing_info' = [splicing_info EXCEPT !.total_spliced = @ + 1]
  /\ pieces' = <<>>
  /\ remaining_length' = CurItem.cut_length
  /\ first_piece' = TRUE
  /\ pc' = "splice_loop"
  /\ UNCHANGED <<inputs, processed_data, item_idx,
                 data_to_optimize, grouping, dia_idx, packing, totals, remnants>>

SpliceBegin ==
  /\ pc = "splice"
  /\ item_idx <= Len(cutting_data)
  /\ NeedsSplicing(CurItem.cut_length)
  /\ splicing_info' = [splicing_info EXCEPT !.total_spliced = @ + CurItem.quantity]
  /\ pieces' = <<>>
  /\ remaining_length' = CurItem.cut_length
  /\ first_piece' = TRUE
  /\ pc' = "splice_loop"
  /\ UNCHANGED <<inputs, processed_data, item_idx,
                 data_to_optimize, grouping, dia_idx, packing, totals, remnants>>

SpliceStep ==
  /\ pc = "splice_loop"
  /\ remaining_length > 0
  /\ Len(pieces) < MaxSegs
  /\ LET p == NextPiece(first_piece, remaining_length, LapLength(CurItem.diameter))
     IN /\ pieces' = Append(pieces, p)
        /\ remaining_length' = remaining_length - p.effective
  /\ first_piece' = FALSE
  /\ UNCHANGED <<inputs, pc, processed_data, splicing_info, item_idx,
                 data_to_optimize, grouping, dia_idx, packing, totals, remnants>>

SpliceEmit ==
  /\ pc = "splice_loop"
  /\ ~(remaining_length > 0)
  /\ splicing_info' = [splicing_info EXCEPT
        !.additional_pieces = @ + (Len(pieces) - 1) * CurItem.quantity]
  /\ processed_data' =
        processed_data \o SegmentRecords(CurItem, pieces, LapLength(CurItem.diameter))
  /\ item_idx' = item_idx + 1
  /\ pc' = "splice"
  /\ UNCHANGED <<inputs, pieces, remaining_length, first_piece,
                 data_to_optimize, grouping, dia_idx, packing, totals, remnants>>

SpliceReturn ==
  /\ pc = "splice"
  /\ item_idx > Len(cutting_data)
  /\ splicing_info' = [splicing_info EXCEPT !.final_count = Len(processed_data)]
  /\ data_to_optimize' = processed_data
  /\ pc' = "optimize"
  /\ UNCHANGED <<inputs, processed_data, item_idx, pieces, remaining_length, first_piece,
                 grouping, dia_idx, packing, totals, remnants>>

\* ------------------------------------------------------------ optimize_cutting
\* Mutant: a diameter missing from the table weighed at a default of 1.
WeightOf_DefaultOne(diameter) ==
  IF diameter \in DOMAIN WEIGHT_MAP THEN WEIGHT_MAP[diameter] ELSE 1

WeightOf(diameter) ==
  IF diameter \in DOMAIN WEIGHT_MAP THEN WEIGHT_MAP[diameter] ELSE 0

\* Mutant: the quantity ignored, one piece per requirement.
Expand_Once(item) ==
  <<[bar_mark |-> item.bar_mark, length |-> item.cut_length]>>

\* The pieces one requirement expands to: quantity copies of {bar_mark, length}.
Expand(item) ==
  [k \in 1..item.quantity |-> [bar_mark |-> item.bar_mark, length |-> item.cut_length]]

\* Keys of diameter_groups in insertion order, after the first n items.
RECURSIVE DiameterOrder(_, _)
DiameterOrder(data, n) ==
  IF n = 0 THEN <<>>
  ELSE LET prev == DiameterOrder(data, n - 1)
           dia == data[n].diameter
       IN IF \E i \in 1..Len(prev) : prev[i] = dia THEN prev ELSE Append(prev, dia)

\* diameter_groups[dia] after the first n items.
RECURSIVE GroupOf(_, _, _)
GroupOf(data, dia, n) ==
  IF n = 0 THEN <<>>
  ELSE GroupOf(data, dia, n - 1) \o
       (IF data[n].diameter = dia THEN Expand(data[n]) ELSE <<>>)

GroupByDiameter(data) ==
  LET order == DiameterOrder(data, Len(data))
  IN [dia \in {order[i] : i \in 1..Len(order)} |-> GroupOf(data, dia, Len(data))]

\* Mutant: a piece inserted before the pieces of its own length (ties reversed).
InsertDesc_TiesReversed(s, x) ==
  LET k == Cardinality({i \in 1..Len(s) : s[i].length > x.length})
  IN SubSeq(s, 1, k) \o <<x>> \o SubSeq(s, k + 1, Len(s))

\* sorted(items, key=length, reverse=True): stable, longest first.
InsertDesc(s, x) ==
  LET k == Cardinality({i \in 1..Len(s) : s[i].length >= x.length})
  IN SubSeq(s, 1, k) \o <<x>> \o SubSeq(s, k + 1, Len(s))

RECURSIVE SortedDesc(_)
SortedDesc(items) ==
  IF items = <<>> THEN <<>>
  ELSE InsertDesc(SortedDesc(SubSeq(items, 1, Len(items) - 1)), items[Len(items)])

\* Mutant: no oversized routing, every piece packed as standard.
IsStandard_Always(length) == TRUE

IsStandard(length) == length <= stock_length

\* Mutant: the oversized pieces dropped instead of kept for special order.
OversizedOf_Dropped(sorted_items) == <<>>

StandardOf(sorted_items) == SelectSeq(sorted_items, LAMBDA it : IsStandard(it.length))
OversizedOf(sorted_items) == SelectSeq(sorted_items, LAMBDA it : ~IsStandard(it.length))

\* Mutant: the kerf never charged.
Kerf_None(stock) == 0

Kerf(stock) == IF stock.cuts # <<>> THEN cutting_tolerance ELSE 0

SpaceNeeded(stock, item_len) == item_len + Kerf(stock)

\* Mutant: a piece that fills the bar exactly is turned away (> for >=).
Accepts_Strict(stock, item_len) == stock.remaining > SpaceNeeded(stock, item_len)

Accepts(stock, item_len) == stock.remaining >= SpaceNeeded(stock, item_len)

\* Index of the bar the scan `for stock in stock_bars` stops at, 0 if none.
FirstFit(bars, item_len) ==
  LET fit == {i \in 1..Len(bars) : Accepts(bars[i], item_len)}
  IN IF fit = {} THEN 0 ELSE CHOOSE i \in fit : \A j \in fit : i <= j

Percent(num, den) == <<num * 100, den>>

\* Mutant: the bar charged the piece's length only, the kerf left out.
PlaceOn_KerfNotCharged(stock, item) ==
  LET start_pos == stock.current_position + Kerf(stock)
      end_pos == start_pos + item.length
      rem == stock.remaining - item.length
  IN [stock EXCEPT
        !.cuts = Append(@, [bar_mark |-> item.bar_mark, length |-> item.length,
                            start |-> start_pos, end |-> end_pos]),
        !.current_position = end_pos,
        !.remaining = rem,
        !.utilization = Percent(stock.stock_length - rem, stock.stock_length)]

\* Mutant: the piece started at the previous cut's end, the kerf gap left out
\* of the position (the capacity is still charged for it).
PlaceOn_NoGap(stock, item) ==
  LET start_pos == stock.current_position
      end_pos == start_pos + item.length
      rem == stock.remaining - SpaceNeeded(stock, item.length)
  IN [stock EXCEPT
        !.cuts = Append(@, [bar_mark |-> item.bar_mark, length |-> item.length,
                            start |-> start_pos, end |-> end_pos]),
        !.current_position = end_pos,
        !.remaining = rem,
        !.utilization = Percent(stock.stock_length - rem, stock.stock_length)]

\* Mutant: only the cut lengths counted as utilized, the kerf left out.
PlaceOn_KerfNotUtilized(stock, item) ==
  LET start_pos == stock.current_position + Kerf(stock)
      end_pos == start_pos + item.length
      rem == stock.remaining - SpaceNeeded(stock, item.length)
      cut_sum == SumSeq([i \in 1..Len(stock.cuts) |-> stock.cuts[i].length])
  IN [stock EXCEPT
        !.cuts = Append(@, [bar_mark |-> item.bar_mark, length |-> item.length,
                            start |-> start_pos, end |-> end_pos]),
        !.current_position = end_pos,
        !.remaining = rem,
        !.utilization = Percent(cut_sum + item.length, stock.stock_length)]

\* Mutant: the new cut put in front of the bar's cuts (insert(0, ...)).
PlaceOn_InFront(stock, item) ==
  LET start_pos == stock.current_position + Kerf(stock)
      end_pos == start_pos + item.length
      rem == stock.remaining - SpaceNeeded(stock, item.length)
  IN [stock EXCEPT
        !.cuts = <<[bar_mark |-> item.bar_mark, length |-> item.length,
                    start |-> start_pos, end |-> end_pos]>> \o @,
        !.current_position = end_pos,
        !.remaining = rem,
        !.utilization = Percent(stock.stock_length - rem, stock.stock_length)]

PlaceOn(stock, item) ==
  LET start_pos == stock.current_position + Kerf(stock)
      end_pos == start_pos + item.length
      rem == stock.remaining - SpaceNeeded(stock, item.length)
  IN [stock EXCEPT
        !.cuts = Append(@, [bar_mark |-> item.bar_mark, length |-> item.length,
                            start |-> start_pos, end |-> end_pos]),
        !.current_position = end_pos,
        !.remaining = rem,
        !.utilization = Percent(stock.stock_length - rem, stock.stock_length)]

NewStandardBar(id, diameter, item) ==
  [stock_id |-> id, diameter |-> diameter, stock_length |-> stock_length,
   cuts |-> <<[bar_mark |-> item.bar_mark, length |-> item.length,
               start |-> 0, end |-> item.length]>>,
   remaining |-> stock_length - item.length,
   utilization |-> Percent(item.length, stock_length),
   current_position |-> item.length]

\* Mutant: the special-order bar given the configured stock length.
NewSpecialBar_StockNominal(id, diameter, item) ==
  [stock_id |-> id, diameter |-> diameter, stock_length |-> stock_length,
   cuts |-> <<[bar_mark |-> item.bar_mark, length |-> item.length,
               start |-> 0, end |-> item.length]>>,
   remaining |-> 0,
   utilization |-> Percent(1, 1),
   current_position |-> item.length]

NewSpecialBar(id, diameter, item) ==
  [stock_id |-> id, diameter |-> diameter, stock_length |-> item.length,
   cuts |-> <<[bar_mark |-> item.bar_mark, length |-> item.length,
               start |-> 0, end |-> item.length]>>,
   remaining |-> 0,
   utilization |-> Percent(1, 1),
   current_position |-> item.length]

\* Mutant: the marker condition inverted.
ProcurementLine_MarkerInverted(diameter, bars, oversized) ==
  LET waste_dia == SumSeq([i \in 1..Len(bars) |-> bars[i].remaining])
      total_len_dia == SumSeq([i \in 1..Len(bars) |-> bars[i].stock_length])
  IN [diameter |-> diameter,
      stock_length |-> IF oversized # <<>> THEN <<stock_length>> ELSE <<>>,
      quantity |-> Len(bars),
      total_length |-> total_len_dia,
      waste |-> waste_dia,
      waste_percentage |-> IF total_len_dia > 0 THEN Percent(waste_dia, total_len_dia)
                           ELSE <<0, 1>>,
      total_weight |-> total_len_dia * WeightOf(diameter)]

\* Mutant: the total length taken as bar count x configured stock length.
ProcurementLine_FixedStock(diameter, bars, oversized) ==
  LET waste_dia == SumSeq([i \in 1..Len(bars) |-> bars[i].remaining])
      total_len_dia == Len(bars) * stock_length
  IN [diameter |-> diameter,
      stock_length |-> IF oversized = <<>> THEN <<stock_length>> ELSE <<>>,
      quantity |-> Len(bars),
      total_length |-> total_len_dia,
      waste |-> waste_dia,
      waste_percentage |-> IF total_len_dia > 0 THEN Percent(waste_dia, total_len_dia)
                           ELSE <<0, 1>>,
      total_weight |-> total_len_dia * WeightOf(diameter)]

ProcurementLine(diameter, bars, oversized) ==
  LET waste_dia == SumSeq([i \in 1..Len(bars) |-> bars[i].remaining])
      total_len_dia == SumSeq([i \in 1..Len(bars) |-> bars[i].stock_length])
  IN [diameter |-> diameter,
      stock_length |-> IF oversized = <<>> THEN <<stock_length>> ELSE <<>>,
      quantity |-> Len(bars),
      total_length |-> total_len_dia,
      waste |-> waste_dia,
      waste_percentage |-> IF total_len_dia > 0 THEN Percent(waste_dia, total_len_dia)
                           ELSE <<0, 1>>,
      total_weight |-> total_len_dia * WeightOf(diameter)]

HasRemnant(stock) == stock.remaining > 0

\* Mutant: the 1.0 m threshold taken as strict.
IsReusable_Strict(stock) == stock.remaining > 1 * UnitsPerMeter

IsReusable(stock) == stock.remaining >= 1 * UnitsPerMeter

RemInfo(stock) ==
  [stock_id |-> stock.stock_id, diameter |-> stock.diameter,
   length |-> stock.remaining, weight |-> stock.remaining * WeightOf(stock.diameter)]

ReusableOf(plans) ==
  LET kept == SelectSeq(plans, LAMBDA s : HasRemnant(s) /\ IsReusable(s))
  IN [i \in 1..Len(kept) |-> RemInfo(kept[i])]

ScrapOf(plans) ==
  LET kept == SelectSeq(plans, LAMBDA s : HasRemnant(s) /\ ~IsReusable(s))
  IN [i \in 1..Len(kept) |-> RemInfo(kept[i])]

\* Mutant: the bar count started at 1, like stock_counter.
InitialAccumulators_CountFromOne ==
  [all_cutting_plans |-> <<>>, procurement_summary |-> <<>>,
   total_waste_all |-> 0, total_stock_used_all |-> 1, total_weight_all |-> 0]

\* The accumulators before the first diameter is processed.
InitialAccumulators ==
  [all_cutting_plans |-> <<>>, procurement_summary |-> <<>>,
   total_waste_all |-> 0, total_stock_used_all |-> 0, total_weight_all |-> 0]

\* Mutant: the grand total overwritten by the diameter's value.
Accumulate_Overwrite(total, amount) == amount

\* total += amount (the three grand totals).
Accumulate(total, amount) == total + amount

CurDiameter == group_order[dia_idx]
CurStandard == standard_items[pos]
CurOversized == oversized_items[pos - Len(standard_items)]

\* 1. Group by diameter; the accumulators of lines 148-152.
Group ==
  /\ pc = "optimize"
  /\ group_order' = DiameterOrder(data_to_optimize, Len(data_to_optimize))
  /\ diameter_groups' = GroupByDiameter(data_to_optimize)
  /\ all_cutting_plans' = InitialAccumulators.all_cutting_plans
  /\ procurement_summary' = InitialAccumulators.procurement_summary
  /\ total_waste_all' = InitialAccumulators.total_waste_all
  /\ total_stock_used_all' = InitialAccumulators.total_stock_used_all
  /\ total_weight_all' = InitialAccumulators.total_weight_all
  /\ dia_idx' = 1
  /\ pc' = "diameter"
  /\ UNCHANGED <<inputs, splicer, data_to_optimize, packing, remnants>>

\* Mutant: stock_bars not emptied, the previous diameter's bars left open.
BeginDiameter_BarsKept ==
  /\ pc = "diameter"
  /\ dia_idx <= Len(group_order)
  /\ LET sorted_items == SortedDesc(diameter_groups[CurDiameter])
     IN /\ standard_items' = StandardOf(sorted_items)
        /\ oversized_items' = OversizedOf(sorted_items)
  /\ stock_bars' = stock_bars
  /\ stock_counter' = 1
  /\ pos' = 1
  /\ pc' = "pack"
  /\ UNCHANGED <<inputs, splicer, data_to_optimize, grouping, dia_idx, totals, remnants>>

\* Mutant: stock_counter not reset, the numbering carried over to the next
\* diameter.
BeginDiameter_CounterKept ==
  /\ pc = "diameter"
  /\ dia_idx <= Len(group_order)
  /\ LET sorted_items == SortedDesc(diameter_groups[CurDiameter])
     IN /\ standard_items' = StandardOf(sorted_items)
        /\ oversized_items' = OversizedOf(sorted_items)
  /\ stock_bars' = <<>>
  /\ stock_counter' = stock_counter
  /\ pos' = 1
  /\ pc' = "pack"
  /\ UNCHANGED <<inputs, splicer, data_to_optimize, grouping, dia_idx, totals, remnants>>

\* 2. Next diameter: sort longest first, split standard / oversized.
BeginDiameter ==
  /\ pc = "diameter"
  /\ dia_idx <= Len(group_order)
  /\ LET sorted_items == SortedDesc(diameter_groups[CurDiameter])
     IN /\ standard_items' = StandardOf(sorted_items)
        /\ oversized_items' = OversizedOf(sorted_items)
  /\ stock_bars' = <<>>
  /\ stock_counter' = 1
  /\ pos' = 1
  /\ pc' = "pack"
  /\ UNCHANGED <<inputs, splicer, data_to_optimize, grouping, dia_idx, totals, remnants>>

\* 2.1 A standard piece goes to the first bar that accepts it.
PlaceInExisting ==
  /\ pc = "pack"
  /\ pos <= Len(standard_items)
  /\ FirstFit(stock_bars, CurStandard.length) # 0
  /\ LET i == FirstFit(stock_bars, CurStandard.length)
     IN stock_bars' = [stock_bars EXCEPT ![i] = PlaceOn(@, CurStandard)]
  /\ pos' = pos + 1
  /\ UNCHANGED <<inputs, pc, splicer, data_to_optimize, grouping, dia_idx,
                 standard_items, oversized_items, stock_counter, totals, remnants>>

\* 2.1 No bar accepts the piece: a new bar of stock length.
OpenNewBar ==
  /\ pc = "pack"
  /\ pos <= Len(standard_items)
  /\ FirstFit(stock_bars, CurStandard.length) = 0
  /\ stock_bars' = Append(stock_bars, NewStandardBar(stock_counter, CurDiameter, CurStandard))
  /\ stock_counter' = stock_counter + 1
  /\ pos' = pos + 1
  /\ UNCHANGED <<inputs, pc, splicer, data_to_optimize, grouping, dia_idx,
                 standard_items, oversized_items, totals, remnants>>

\* 2.2 An oversized piece gets a special-order bar of its own length.
PlaceOversized ==
  /\ pc = "pack"
  /\ pos > Len(standard_items)
  /\ pos <= Len(standard_items) + Len(oversized_items)
  /\ stock_bars' = Append(stock_bars, NewSpecialBar(stock_counter, CurDiameter, CurOversized))
  /\ stock_counter' = stock_counter + 1
  /\ pos' = pos + 1
  /\ UNCHANGED <<inputs, pc, splicer, data_to_optimize, grouping, dia_idx,
                 standard_items, oversized_items, totals, remnants>>

\* 3. Summary of the diameter.
Summarize ==
  /\ pc = "pack"
  /\ pos > Len(standard_items) + Len(oversized_items)
  /\ LET line == ProcurementLine(CurDiameter, stock_bars, oversized_items)
     IN /\ procurement_summary' = Append(procurement_summary, line)
        /\ all_cutting_plans' = all_cutting_plans \o stock_bars
        /\ total_waste_all' = Accumulate(total_waste_all, line.waste)
        /\ total_stock_used_all' = Accumulate(total_stock_used_all, line.quantity)
        /\ total_weight_all' = Accumulate(total_weight_all, line.total_weight)
  /\ dia_idx' = dia_idx + 1
  /\ pc' = "diameter"
  /\ UNCHANGED <<inputs, splicer, data_to_optimize, grouping, packing, remnants>>

\* 4. Remnant classification and the returned OptimizationResult.
Classify ==
  /\ pc = "diameter"
  /\ dia_idx > Len(group_order)
  /\ reusable' = ReusableOf(all_cutting_plans)
  /\ scrap' = ScrapOf(all_cutting_plans)
  /\ pc' = "done"
  /\ UNCHANGED <<inputs, splicer, data_to_optimize, grouping, dia_idx, packing, totals>>

Init ==
  /\ cutting_data \in InputLists
  /\ stock_length \in STANDARD_STOCK_LENGTHS
  /\ cutting_tolerance_mm \in Tolerances
  /\ enable_splicing \in BOOLEAN
  /\ lap_factor \in LapFactors
  /\ pc = IF enable_splicing THEN "splice" ELSE "optimize"
  /\ processed_data = <<>>
  /\ splicing_info = [total_spliced |-> 0, original_count |-> Len(cutting_data),
                      additional_pieces |-> 0, final_count |-> -1]
  /\ item_idx = 1
  /\ pieces = <<>>
  /\ remaining_length = 0
  /\ first_piece = TRUE
  /\ data_to_optimize = cutting_data
  /\ group_order = <<>>
  /\ diameter_groups = <<>>
  /\ dia_idx = 1
  /\ standard_items = <<>>
  /\ oversized_items = <<>>
  /\ pos = 1
  /\ stock_bars = <<>>
  /\ stock_counter = 1
  /\ all_cutting_plans = <<>>
  /\ procurement_summary = <<>>
  /\ total_waste_all = 0
  /\ total_stock_used_all = 0
  /\ total_weight_all = 0
  /\ reusable = <<>>
  /\ scrap = <<>>

Next ==
  \/ SplicePassThrough
  \/ SpliceBegin
  \/ SpliceStep
  \/ SpliceEmit
  \/ SpliceReturn
  \/ Group
  \/ BeginDiameter
  \/ PlaceInExisting
  \/ OpenNewBar
  \/ PlaceOversized
  \/ Summarize
  \/ Classify

Spec == Init /\ [][Next]_vars

\* apply_engineering_splicing alone, run to its return.  The function is
\* sequential code: whenever a step is possible it is taken.
SpliceInit == Init /\ enable_splicing

SpliceNext ==
  \/ SplicePassThrough
  \/ SpliceBegin
  \/ SpliceStep
  \/ SpliceEmit
  \/ SpliceReturn

SpliceSpec == SpliceInit /\ [][SpliceNext]_vars /\ WF_vars(SpliceNext)

\* ------------------------------------------ the splitting loop in binary64
\* The lengths of apply_engineering_splicing are Python floats (IEEE 754
\* binary64, round to nearest, ties to even).  A double x is written
\* <<mm, dev>>, meaning x = mm / 1000 + dev / (1000 * 2^56) metres: a whole
\* number of millimetres and the deviation from it, so that the decimal inputs
\* and every double of magnitude >= 1/16 m are represented exactly.
RECURSIVE Pow2(_)
Pow2(n) == IF n = 0 THEN 1 ELSE 2 * Pow2(n - 1)

\* 2^n modulo m.
RECURSIVE Pow2Mod(_, _)
Pow2Mod(n, m) == IF n = 0 THEN 1 % m ELSE (2 * Pow2Mod(n - 1, m)) % m

\* The binary exponent e of x >= 1/16: 2^e <= x < 2^(e+1).
FloatExponent(x) ==
  CHOOSE e \in -4..6 :
    /\ 16 * x[1] > 1000 * Pow2(e + 4) \/ (16 * x[1] = 1000 * Pow2(e + 4) /\ x[2] >= 0)
    /\ \A f \in (e + 1)..6 :
         ~(16 * x[1] > 1000 * Pow2(f + 4) \/ (16 * x[1] = 1000 * Pow2(f + 4) /\ x[2] >= 0))

\* The double nearest to the exact value x.  A value below 1/16 m arises here
\* only as the difference of two doubles within a factor 2 of each other,
\* which is a double already.  ulp is the spacing of the doubles of x's
\* exponent, in deviation units; r2 is x modulo 2 * ulp.
FloatRound(x) ==
  IF 16 * x[1] < 1000 THEN x
  ELSE LET e == FloatExponent(x)
           ulp == 1000 * Pow2(e + 4)
           r2 == (Pow2(e + 4) * (((x[1] % 2000) * Pow2Mod(52 - e, 2000)) % 2000) + x[2])
                   % (2 * ulp)
           r == r2 % ulp
       IN IF r = 0 THEN x
          ELSE IF 2 * r < ulp THEN <<x[1], x[2] - r>>
          ELSE IF 2 * r > ulp THEN <<x[1], x[2] + ulp - r>>
          ELSE IF r2 < ulp THEN <<x[1], x[2] - r>>
          ELSE <<x[1], x[2] + ulp - r>>

\* A number of millimetres as the double of its value in metres (n / 1000.0).
FloatOfMm(n) == FloatRound(<<n, 0>>)

FloatAdd(x, y) == FloatRound(<<x[1] + y[1], x[2] + y[2]>>)
FloatSub(x, y) == FloatRound(<<x[1] - y[1], x[2] - y[2]>>)
FloatLeq(x, y) == x[1] < y[1] \/ (x[1] = y[1] /\ x[2] <= y[2])
FloatPositive(x) == ~FloatLeq(x, <<0, 0>>)

\* lap_length = (lap_factor * diameter) / 1000.0
FloatLapLength(diameter) == FloatOfMm(lap_factor * diameter)

\* One iteration of the splitting loop, in doubles; stock_length is an int.
FloatNextPiece(first, rem, lap) ==
  LET stock == <<stock_length, 0>>
  IN IF first THEN [cut |-> stock, effective |-> stock]
     ELSE IF FloatLeq(FloatAdd(rem, lap), stock)
          THEN [cut |-> FloatAdd(rem, lap), effective |-> rem]
          ELSE [cut |-> stock, effective |-> FloatSub(stock, lap)]

\* Lengths to split, in mm, and the lap factors the input offers.
FloatLengths == {15000, 19100, 19600, 23600}
FloatLapFactors == {30, 35, 40, 45, 50, 55, 60}

FloatSpliceInit ==
  /\ cutting_data \in
       {<<[bar_mark |-> <<"A">>, diameter |-> d, cut_length |-> len, quantity |-> 1]>> :
          d \in DOMAIN WEIGHT_MAP, len \in FloatLengths}
  /\ stock_length \in STANDARD_STOCK_LENGTHS
  /\ cutting_tolerance_mm = 0
  /\ enable_splicing = TRUE
  /\ lap_factor \in FloatLapFactors
  /\ pc = "splice"
  /\ processed_data = <<>>
  /\ splicing_info = [total_spliced |-> 0, original_count |-> Len(cutting_data),
                      additional_pieces |-> 0, final_count |-> -1]
  /\ item_idx = 1
  /\ pieces = <<>>
  /\ remaining_length = <<0, 0>>
  /\ first_piece = TRUE
  /\ data_to_optimize = cutting_data
  /\ group_order = <<>>
  /\ diameter_groups = <<>>
  /\ dia_idx = 1
  /\ standard_items = <<>>
  /\ oversized_items = <<>>
  /\ pos = 1
  /\ stock_bars = <<>>
  /\ stock_counter = 1
  /\ all_cutting_plans = <<>>
  /\ procurement_summary = <<>>
  /\ total_waste_all = 0
  /\ total_stock_used_all = 0
  /\ total_weight_all = 0
  /\ reusable = <<>>
  /\ scrap = <<>>

FloatSpliceBegin ==
  /\ pc = "splice"
  /\ item_idx <= Len(cutting_data)
  /\ ~FloatLeq(FloatOfMm(CurItem.cut_length), <<stock_length, 0>>)
  /\ splicing_info' = [splicing_info EXCEPT !.total_spliced = @ + CurItem.quantity]
  /\ pieces' = <<>>
  /\ remaining_length' = FloatOfMm(CurItem.cut_length)
  /\ first_piece' = TRUE
  /\ pc' = "splice_loop"
  /\ UNCHANGED <<inputs, processed_data, item_idx,
                 data_to_optimize, grouping, dia_idx, packing, totals, remnants>>

FloatSpliceStep ==
  /\ pc = "splice_loop"
  /\ FloatPositive(remaining_length)
  /\ LET p == FloatNextPiece(first_piece, remaining_length,
                             FloatLapLength(CurItem.diameter))
     IN /\ pieces' = Append(pieces, p)
        /\ remaining_length' = FloatSub(remaining_length, p.effective)
  /\ first_piece' = FALSE
  /\ UNCHANGED <<inputs, pc, processed_data, splicing_info, item_idx,
                 data_to_optimize, grouping, dia_idx, packing, totals, remnants>>

FloatSpliceEmit ==
  /\ pc = "splice_loop"
  /\ ~FloatPositive(remaining_length)
  /\ splicing_info' = [splicing_info EXCEPT
        !.additional_pieces = @ + (Len(pieces) - 1) * CurItem.quantity]
  /\ processed_data' =
        processed_data \o SegmentRecords(CurItem, pieces, FloatLapLength(CurItem.diameter))
  /\ item_idx' = item_idx + 1
  /\ pc' = "splice"
  /\ UNCHANGED <<inputs, pieces, remaining_length, first_piece,
                 data_to_optimize, grouping, dia_idx, packing, totals, remnants>>

FloatSpliceNext ==
  \/ FloatSpliceBegin
  \/ FloatSpliceStep
  \/ FloatSpliceEmit

\* One requirement longer than the stock, split in binary64 arithmetic.
FloatSpliceSpec == FloatSpliceInit /\ [][FloatSpliceNext]_vars

\* ------------------------------------------------------------------ claims
Range(s) == {s[i] : i \in 1..Len(s)}

BarsOf(plans, dia) == SelectSeq(plans, LAMBDA b : b.diameter = dia)

CutLengthsOf(bar) == SumSeq([i \in 1..Len(bar.cuts) |-> bar.cuts[i].length])

\* Total cut length over the bars of one diameter.
CutTotal(plans, dia) ==
  LET bars == BarsOf(plans, dia)
  IN SumSeq([i \in 1..Len(bars) |-> CutLengthsOf(bars[i])])

\* Total required length (length x quantity) of one diameter.
RequiredTotal(data, dia) ==
  LET reqs == SelectSeq(data, LAMBDA r : r.diameter = dia)
  IN SumSeq([i \in 1..Len(reqs) |-> reqs[i].cut_length * reqs[i].quantity])

\* lap_length of the requirement being spliced
CurLap == LapLength(CurItem.diameter)

\* C1: every StockBar has remaining >= 0 after every placement step of the
\* packing loop and in the returned cutting plan, for standard bars and for
\* special-order (oversized) bars.
C1_WasteNonNegative ==
  /\ \A i \in 1..Len(stock_bars) : stock_bars[i].remaining >= 0
  /\ \A i \in 1..Len(all_cutting_plans) : all_cutting_plans[i].remaining >= 0

\* The packing loop has filled a standard bar with several cuts and has
\* opened a special-order bar for an oversized piece.
C1_Witness ==
  /\ pc = "pack"
  /\ \E i \in 1..Len(stock_bars) :
       Len(stock_bars[i].cuts) >= 2 /\ stock_bars[i].stock_length = stock_length
  /\ \E i \in 1..Len(stock_bars) : stock_bars[i].stock_length > stock_length

\* C2: conservation: in the returned plan, for each diameter, the cut lengths
\* over all bars of that diameter sum to the sum of length x quantity over the
\* requirements of that diameter given to optimize_cutting.
C2_Conservation ==
  pc = "done" =>
    \A dia \in Diameters :
      CutTotal(all_cutting_plans, dia) = RequiredTotal(data_to_optimize, dia)

\* A finished run over two diameters with a requirement of quantity 2 and a
\* diameter that needed more than one bar.
C2_Witness ==
  /\ pc = "done"
  /\ Len(procurement_summary) = 2
  /\ \E i \in 1..Len(data_to_optimize) : data_to_optimize[i].quantity = 2
  /\ \E i \in 1..Len(procurement_summary) : procurement_summary[i].quantity >= 2

\* C3: splice round trip: with lap_length < stock_length, the remaining length
\* of the splitting loop never becomes negative, and when the loop exits the
\* effective lengths of the segments sum to exactly the requirement's length.
C3_SpliceRoundTrip ==
  (pc = "splice_loop" /\ CurLap < stock_length) =>
    /\ remaining_length >= 0
    /\ ~(remaining_length > 0) =>
         SumSeq([i \in 1..Len(pieces) |-> pieces[i].effective]) = CurItem.cut_length

\* The loop has exited after a first, an interior and a final segment.
C3_Witness ==
  /\ pc = "splice_loop"
  /\ CurLap < stock_length
  /\ remaining_length = 0
  /\ Len(pieces) >= 3

\* C4: a degenerate splicing configuration (length > stock_length and
\* lap_length >= stock_length) is rejected before the splitting loop is
\* entered: the loop never runs with lap_length >= stock_length.
C4_DegenerateRejected ==
  ~(pc = "splice_loop" /\ CurLap >= stock_length)

\* C5: a requirement with length <= stock_length (equality included) is
\* emitted by the splicer as one output record equal to the input record, and
\* the step adds nothing to total_spliced or additional_pieces.
C5_PassThrough ==
  [][(/\ pc = "splice"
      /\ item_idx <= Len(cutting_data)
      /\ CurItem.cut_length <= stock_length)
     => (/\ processed_data' = Append(processed_data, CurItem)
         /\ splicing_info'.total_spliced = splicing_info.total_spliced
         /\ splicing_info'.additional_pieces = splicing_info.additional_pieces
         /\ item_idx' = item_idx + 1
         /\ pc' = "splice")]_vars

\* The splicer has just passed through a requirement whose length equals the
\* stock length, after having spliced an earlier one.
C5_Witness ==
  /\ pc = "splice"
  /\ item_idx > 1
  /\ cutting_data[item_idx - 1].cut_length = stock_length
  /\ processed_data # <<>>
  /\ processed_data[Len(processed_data)] = cutting_data[item_idx - 1]
  /\ splicing_info.total_spliced > 0

\* C6: first fit with kerf: a standard piece goes to the earliest bar whose
\* remaining >= length + (tolerance if the bar has a cut, else 0), which is
\* charged length + tolerance; only if there is no such bar a new bar of
\* nominal length stock_length is opened, whose first cut starts at 0 and is
\* charged no tolerance.
C6_FirstFitKerf ==
  [][(pc = "pack" /\ pos <= Len(standard_items)) =>
     LET item == standard_items[pos]
         n == Len(stock_bars)
         fits(b) == b.remaining >=
                      item.length + (IF Len(b.cuts) >= 1 THEN cutting_tolerance ELSE 0)
         E == {i \in 1..n : fits(stock_bars[i])}
     IN IF E # {}
        THEN LET k == CHOOSE i \in E : \A j \in E : i <= j
                 old == stock_bars[k]
                 new == stock_bars'[k]
             IN /\ Len(stock_bars') = n
                /\ \A i \in (1..n) \ {k} : stock_bars'[i] = stock_bars[i]
                /\ Len(new.cuts) = Len(old.cuts) + 1
                /\ SubSeq(new.cuts, 1, Len(old.cuts)) = old.cuts
                /\ new.cuts[Len(new.cuts)].bar_mark = item.bar_mark
                /\ new.cuts[Len(new.cuts)].length = item.length
                /\ new.remaining = old.remaining - item.length - cutting_tolerance
                /\ new.stock_id = old.stock_id
        ELSE LET new == stock_bars'[n + 1]
             IN /\ Len(stock_bars') = n + 1
                /\ SubSeq(stock_bars', 1, n) = stock_bars
                /\ new.stock_length = stock_length
                /\ new.cuts = <<[bar_mark |-> item.bar_mark, length |-> item.length,
                                 start |-> 0, end |-> item.length]>>
                /\ new.remaining = stock_length - item.length
    ]_vars

\* A piece that fitted an open bar without the kerf but not with it has been
\* placed on a new bar.
C6_Witness ==
  /\ pc = "pack"
  /\ cutting_tolerance > 0
  /\ \E i, j \in 1..Len(stock_bars) :
       /\ i < j
       /\ Len(stock_bars[i].cuts) = 1
       /\ stock_bars[j].stock_length = stock_length
       /\ stock_bars[i].remaining >= stock_bars[j].cuts[1].length
       /\ stock_bars[i].remaining < stock_bars[j].cuts[1].length + cutting_tolerance

IsPercent(p, n) == p[1] = n * p[2]

OversizedCount(data) ==
  SumSeq([i \in 1..Len(data) |->
            IF data[i].cut_length > stock_length THEN data[i].quantity ELSE 0])

SpecialOrderShape(b) ==
  /\ Len(b.cuts) = 1
  /\ b.cuts[1].start = 0
  /\ b.cuts[1].end = b.cuts[1].length
  /\ b.cuts[1].length = b.stock_length
  /\ b.remaining = 0
  /\ IsPercent(b.utilization, 100)

\* Every cut longer than the stock length is alone on a special-order bar of
\* its own length; every other cut is on a bar of the stock length.
RoutedByLength(b) ==
  \A c \in Range(b.cuts) :
    IF c.length > stock_length
    THEN b.stock_length = c.length /\ SpecialOrderShape(b)
    ELSE b.stock_length = stock_length

\* C7: with splicing not applied, the pieces routed as oversized are exactly
\* those with length > stock_length; each is the only cut, [0, length], of a
\* special-order bar of nominal length = its length, remaining 0 and
\* utilization 100%, with no remnant entry; pieces with length <= stock_length
\* are on bars of nominal length stock_length.
C7_OversizedRouting ==
  ~enable_splicing =>
    /\ pc = "pack" =>
         /\ \A it \in Range(standard_items) : it.length <= stock_length
         /\ \A it \in Range(oversized_items) : it.length > stock_length
    /\ \A b \in Range(stock_bars) \cup Range(all_cutting_plans) : RoutedByLength(b)
    /\ pc = "done" =>
         /\ Len(SelectSeq(all_cutting_plans, LAMBDA b : b.stock_length > stock_length))
              = OversizedCount(data_to_optimize)
         /\ \A b \in Range(all_cutting_plans) :
              b.stock_length > stock_length =>
                \A r \in Range(reusable) \cup Range(scrap) :
                  ~(r.stock_id = b.stock_id /\ r.diameter = b.diameter)

\* A finished run without splicing that has a special-order bar next to a
\* standard bar holding a piece exactly as long as the stock.
C7_Witness ==
  /\ pc = "done"
  /\ ~enable_splicing
  /\ \E b \in Range(all_cutting_plans) : b.stock_length > stock_length
  /\ \E b \in Range(all_cutting_plans) :
       b.stock_length = stock_length /\ b.cuts[1].length = stock_length

EntriesFor(entries, b) ==
  {j \in 1..Len(entries) :
     entries[j].stock_id = b.stock_id /\ entries[j].diameter = b.diameter}

\* C8: remnant partition: in the result, a bar with remaining > 0 has exactly one
\* remnant entry, of length remaining, in reusable iff remaining >= 1.0 m and
\* in scrap otherwise; a bar with remaining = 0 has none; every remnant entry
\* belongs to a bar of the plan.
C8_RemnantPartition ==
  pc = "done" =>
    /\ \A b \in Range(all_cutting_plans) :
         LET R == EntriesFor(reusable, b)
             S == EntriesFor(scrap, b)
         IN IF b.remaining > 0
            THEN /\ Cardinality(R) + Cardinality(S) = 1
                 /\ (R # {}) <=> (b.remaining >= 1 * UnitsPerMeter)
                 /\ \A j \in R : reusable[j].length = b.remaining
                 /\ \A j \in S : scrap[j].length = b.remaining
            ELSE R = {} /\ S = {}
    /\ \A r \in Range(reusable) \cup Range(scrap) :
         \E b \in Range(all_cutting_plans) :
           /\ r.stock_id = b.stock_id
           /\ r.diameter = b.diameter
           /\ r.length = b.remaining

\* A finished run with a bar whose remaining is exactly 1.0 m (reusable) and a
\* bar with remaining 0 (no entry).
C8_Witness ==
  /\ pc = "done"
  /\ \E b \in Range(all_cutting_plans) :
       b.remaining = 1 * UnitsPerMeter /\ EntriesFor(reusable, b) # {}
  /\ \E b \in Range(all_cutting_plans) : b.remaining = 0

\* C10: optimize_cutting on zero requirements returns a result with empty
\* procurement_summary, cutting_plan, reusable and scrap, and totals 0.
C10_EmptyInput ==
  (pc = "done" /\ data_to_optimize = <<>>) =>
    /\ procurement_summary = <<>>
    /\ all_cutting_plans = <<>>
    /\ reusable = <<>>
    /\ scrap = <<>>
    /\ total_waste_all = 0
    /\ total_stock_used_all = 0
    /\ total_weight_all = 0

\* optimize_cutting has returned for an empty requirement list.
C10_Witness ==
  pc = "done" /\ data_to_optimize = <<>>

\* The bars with their diameter field left out: what was packed and where.
PackingOf(bars) ==
  [i \in 1..Len(bars) |->
     [stock_id |-> bars[i].stock_id, stock_length |-> bars[i].stock_length,
      cuts |-> bars[i].cuts, remaining |-> bars[i].remaining,
      utilization |-> bars[i].utilization,
      current_position |-> bars[i].current_position]]

\* C11: a diameter absent from the weight table: the run returns, the
\* diameter's line has total_weight 0 and its remnants weight 0, and its
\* pieces are packed exactly as the same pieces of a diameter in the table.
C11_UnknownDiameterWeight ==
  pc = "done" =>
    \A k \in 1..Len(procurement_summary) :
      LET dia == procurement_summary[k].diameter
      IN dia \notin DOMAIN WEIGHT_MAP =>
           /\ procurement_summary[k].total_weight = 0
           /\ \A r \in Range(reusable) \cup Range(scrap) :
                r.diameter = dia => r.weight = 0
           /\ \A other \in DOMAIN diameter_groups :
                (other \in DOMAIN WEIGHT_MAP
                   /\ diameter_groups[other] = diameter_groups[dia])
                => PackingOf(BarsOf(all_cutting_plans, dia))
                     = PackingOf(BarsOf(all_cutting_plans, other))

\* A finished run in which a diameter outside the table and one inside it had
\* the same pieces, and the unknown diameter left a remnant.
C11_Witness ==
  /\ pc = "done"
  /\ \E dia, other \in DOMAIN diameter_groups :
       /\ dia \notin DOMAIN WEIGHT_MAP
       /\ other \in DOMAIN WEIGHT_MAP
       /\ diameter_groups[other] = diameter_groups[dia]
       /\ Len(diameter_groups[dia]) >= 2
       /\ \E r \in Range(reusable) \cup Range(scrap) : r.diameter = dia

\* C12: bar capacity accounting: after every placement step and in the result,
\* remaining = nominal length - sum of cut lengths - tolerance x (cuts - 1).
C12_CapacityAccounting ==
  \A b \in Range(stock_bars) \cup Range(all_cutting_plans) :
    b.remaining =
      b.stock_length - CutLengthsOf(b) - cutting_tolerance * (Len(b.cuts) - 1)

\* The packing loop has put a second cut on a bar with a non-zero kerf.
C12_Witness ==
  /\ pc = "pack"
  /\ cutting_tolerance > 0
  /\ \E b \in Range(stock_bars) : Len(b.cuts) >= 2

\* C13: splice segment lengths: every iteration of the splitting loop appends
\* one segment; the first has cut = effective = stock_length; a later one is
\* final, with cut = remaining + lap and effective = remaining, exactly when
\* remaining + lap <= stock_length, and otherwise interior, with cut =
\* stock_length and effective = stock_length - lap, where
\* lap = lap_factor x diameter / 1000 (metres).
C13_SegmentLengths ==
  [][(pc = "splice_loop" /\ pieces' # pieces) =>
     LET lap == (lap_factor * CurItem.diameter * UnitsPerMeter) \div 1000
         rem == remaining_length
         p == pieces'[Len(pieces')]
     IN /\ CurItem.cut_length > stock_length
        /\ Len(pieces') = Len(pieces) + 1
        /\ SubSeq(pieces', 1, Len(pieces)) = pieces
        /\ IF pieces = <<>>
           THEN p.cut = stock_length /\ p.effective = stock_length
           ELSE IF rem + lap <= stock_length
                THEN p.cut = rem + lap /\ p.effective = rem
                ELSE p.cut = stock_length /\ p.effective = stock_length - lap
    ]_vars

\* The loop has produced a first, an interior and a final segment.
C13_Witness ==
  /\ pc = "splice_loop"
  /\ Len(pieces) = 3
  /\ pieces[2].cut = stock_length
  /\ pieces[2].effective < stock_length
  /\ pieces[3].cut < stock_length
  /\ pieces[3].cut > pieces[3].effective

\* C14: splice-then-optimize: when the splicer runs before the optimizer, no
\* record it emits is longer than stock_length, the optimizer has no oversized
\* piece, every bar has nominal length stock_length and no line is mixed.
C14_SpliceThenOptimize ==
  enable_splicing =>
    /\ \A r \in Range(processed_data) : r.cut_length <= stock_length
    /\ pc \notin {"splice", "splice_loop"} =>
         \A r \in Range(data_to_optimize) : r.cut_length <= stock_length
    /\ oversized_items = <<>>
    /\ \A b \in Range(stock_bars) \cup Range(all_cutting_plans) :
         b.stock_length = stock_length
    /\ \A line \in Range(procurement_summary) : line.stock_length = <<stock_length>>

\* The optimizer has returned a plan for spliced input: a requirement was
\* split in three segments and the plan has a line.
C14_Witness ==
  /\ pc = "done"
  /\ enable_splicing
  /\ splicing_info.total_spliced > 0
  /\ \E r \in Range(data_to_optimize) : Len(r.bar_mark) = 6 /\ r.bar_mark[5] = 3
  /\ procurement_summary # <<>>

RECURSIVE Gcd(_, _)
Gcd(a, b) == IF b = 0 THEN a ELSE Gcd(b, a % b)

\* A fraction <<numerator, denominator>> (denominator > 0) in lowest terms.
Lowest(p) == <<p[1] \div Gcd(p[1], p[2]), p[2] \div Gcd(p[1], p[2])>>

\* C15: per-diameter ProcurementLine: bar_count = number of the diameter's
\* bars in the plan, total_stock_length = sum of their nominal lengths,
\* total_waste = sum of their remaining, waste_percent = total_waste /
\* total_stock_length x 100 (0 when total_stock_length is 0) and total_weight =
\* total_stock_length x unit weight of the diameter.
C15_ProcurementLine ==
  pc = "done" =>
    \A line \in Range(procurement_summary) :
      LET bars == BarsOf(all_cutting_plans, line.diameter)
          nominal == SumSeq([i \in 1..Len(bars) |-> bars[i].stock_length])
          left == SumSeq([i \in 1..Len(bars) |-> bars[i].remaining])
          unit == IF line.diameter \in DOMAIN WEIGHT_MAP
                  THEN WEIGHT_MAP[line.diameter] ELSE 0
      IN /\ line.quantity = Len(bars)
         /\ line.total_length = nominal
         /\ line.waste = left
         /\ line.waste_percentage[2] > 0
         /\ IF nominal = 0
            THEN IsPercent(line.waste_percentage, 0)
            ELSE Lowest(line.waste_percentage) = Lowest(<<left * 100, nominal>>)
         /\ line.total_weight = nominal * unit

\* A finished run with a line over a standard bar with waste and a
\* special-order bar of the same diameter.
C15_Witness ==
  /\ pc = "done"
  /\ \E line \in Range(procurement_summary) :
       /\ line.quantity >= 2
       /\ line.waste > 0
       /\ line.total_length > line.quantity * stock_length
       /\ line.total_weight > 0

\* C16: grand totals: total_waste = sum of the lines' waste = sum of remaining
\* over the plan; total_stock_used = sum of the lines' bar counts = number of
\* bars in the plan; total_weight = sum of the lines' total_weight; and there
\* is exactly one line per distinct diameter of the input.
C16_GrandTotals ==
  pc = "done" =>
    LET lines == procurement_summary
        plan == all_cutting_plans
    IN /\ total_waste_all = SumSeq([i \in 1..Len(lines) |-> lines[i].waste])
       /\ total_waste_all = SumSeq([i \in 1..Len(plan) |-> plan[i].remaining])
       /\ total_stock_used_all = SumSeq([i \in 1..Len(lines) |-> lines[i].quantity])
       /\ total_stock_used_all = Len(plan)
       /\ total_weight_all = SumSeq([i \in 1..Len(lines) |-> lines[i].total_weight])
       /\ {lines[i].diameter : i \in 1..Len(lines)}
            = {data_to_optimize[i].diameter : i \in 1..Len(data_to_optimize)}
       /\ \A i, j \in 1..Len(lines) : lines[i].diameter = lines[j].diameter => i = j

\* A finished run over two diameters, both with waste, one of them weighed.
C16_Witness ==
  /\ pc = "done"
  /\ Len(procurement_summary) = 2
  /\ \A line \in Range(procurement_summary) : line.waste > 0
  /\ total_weight_all > 0

\* C17: splice termination: for a requirement with lap_length < stock_length
\* the splitting loop is left, and every iteration appends a segment of
\* strictly positive effective length by which the remaining length strictly
\* decreases.
C17_SpliceTerminates ==
  /\ [][(pc = "splice_loop" /\ CurLap < stock_length /\ pieces' # pieces) =>
        LET p == pieces'[Len(pieces')]
        IN /\ p.effective > 0
           /\ remaining_length' = remaining_length - p.effective
           /\ remaining_length' < remaining_length
       ]_vars
  /\ [](pc = "splice_loop" /\ CurLap < stock_length => <>(pc = "splice"))

\* The loop has been left after three iterations, the second an interior one.
C17_Witness ==
  /\ pc = "splice"
  /\ item_idx > 1
  /\ Len(pieces) = 3
  /\ LapLength(cutting_data[item_idx - 1].diameter) < stock_length
  /\ remaining_length = 0

\* What a step that leaves the splitting loop with N segments appends: N
\* records, the i-th (i = 1..N, in order) with the identifier made of the
\* original identifier, the opening `open` and "{i}/{N})", the
\* diameter and quantity of the original requirement, the i-th segment's cut
\* length and a note naming the original identifier.
EmitsSegments(open) ==
  LET N == Len(pieces)
      old == Len(processed_data)
  IN /\ Len(processed_data') = old + N
     /\ SubSeq(processed_data', 1, old) = processed_data
     /\ \A i \in 1..N :
          LET r == processed_data'[old + i]
          IN /\ r.bar_mark = CurItem.bar_mark \o <<open, i, "/", N, ")">>
             /\ r.diameter = CurItem.diameter
             /\ r.quantity = CurItem.quantity
             /\ r.cut_length = pieces[i].cut
             /\ r.note[1] = "Spliced from"
             /\ r.note[2] = CurItem.bar_mark

\* C18 as stated: the N segment records carry the identifier
\* "{original}({i}/{N})", i = 1..N in emission order, with the original's
\* diameter and quantity and a note naming the original identifier.
C18_SegmentRecords_AsStated ==
  [][(pc = "splice_loop" /\ pc' = "splice") =>
     EmitsSegments("(")
    ]_vars

\* C18 amended: the same, with the identifier "{original} ({i}/{N})": a space
\* separates the original identifier from the "({i}/{N})" suffix.
C18_SegmentRecords ==
  [][(pc = "splice_loop" /\ pc' = "splice") =>
     EmitsSegments(" (")
    ]_vars

\* Three segment records of a requirement of quantity 2 have been emitted.
C18_Witness ==
  /\ pc = "splice"
  /\ \E k \in 1..Len(processed_data) :
       /\ processed_data[k].bar_mark = <<"A", " (", 3, "/", 3, ")">>
       /\ processed_data[k].quantity = 2

IsSpliced(r) == r.cut_length > stock_length

\* The emitted records that are a second or later segment.
LaterSegments(data) ==
  SelectSeq(data, LAMBDA r : Len(r.bar_mark) = 6 /\ r.bar_mark[3] > 1)

\* C19: splicing statistics at return: total_spliced = sum of quantity over
\* the requirements longer than stock_length; additional_pieces = sum over
\* them of (segments - 1) x quantity; final_count = number of records emitted
\* = input count + sum over them of (segments - 1).
C19_SplicingStatistics ==
  (enable_splicing /\ pc \notin {"splice", "splice_loop"}) =>
    LET long == SelectSeq(cutting_data, IsSpliced)
        later == LaterSegments(processed_data)
    IN /\ splicing_info.total_spliced
            = SumSeq([i \in 1..Len(long) |-> long[i].quantity])
       /\ splicing_info.additional_pieces
            = SumSeq([i \in 1..Len(later) |-> later[i].quantity])
       /\ splicing_info.final_count = Len(processed_data)
       /\ splicing_info.final_count = Len(cutting_data) + Len(later)
       /\ splicing_info.original_count = Len(cutting_data)

\* The splicer has returned after splitting a requirement of quantity 2 in
\* three segments and passing another requirement through.
C19_Witness ==
  /\ enable_splicing
  /\ pc = "optimize"
  /\ splicing_info.total_spliced = 2
  /\ splicing_info.additional_pieces = 4
  /\ splicing_info.final_count = 4

\* C20: cut positions: on every bar, under construction or finished, the first
\* cut starts at 0; every cut ends at its start + its length; every later cut
\* starts at the previous cut's end + the kerf; the last cut ends within the
\* bar's nominal length, at nominal length - remaining, which is also the
\* bar's current position.
C20_CutPositions ==
  \A b \in Range(stock_bars) \cup Range(all_cutting_plans) :
    LET n == Len(b.cuts)
    IN /\ n >= 1
       /\ b.cuts[1].start = 0
       /\ \A i \in 1..n : b.cuts[i].end = b.cuts[i].start + b.cuts[i].length
       /\ \A i \in 2..n : b.cuts[i].start = b.cuts[i - 1].end + cutting_tolerance
       /\ b.cuts[n].end <= b.stock_length
       /\ b.cuts[n].end = b.stock_length - b.remaining
       /\ b.cuts[n].end = b.current_position

\* A finished bar carries two cuts, the second one a 5 mm kerf after the first.
C20_Witness ==
  /\ pc = "done"
  /\ cutting_tolerance = 5
  /\ \E b \in Range(all_cutting_plans) :
       /\ Len(b.cuts) = 2
       /\ b.cuts[2].start = b.cuts[1].end + 5
       /\ b.cuts[2].end < b.stock_length

\* C21: utilization: every bar, after every placement step and in the final
\* result, has utilization = (nominal length - remaining) / nominal length x
\* 100 (the kerf between cuts counted as utilized), a value in (0, 100].
C21_Utilization ==
  \A b \in Range(stock_bars) \cup Range(all_cutting_plans) :
    LET used == b.stock_length - b.remaining
    IN /\ b.utilization[2] > 0
       /\ Lowest(b.utilization) = Lowest(<<used * 100, b.stock_length>>)
       /\ b.utilization[1] > 0
       /\ b.utilization[1] <= 100 * b.utilization[2]

\* A finished bar of 10 m holds 5 m + 5 mm kerf + 4.5 m: utilization 95.05 %.
C21_Witness ==
  /\ pc = "done"
  /\ \E b \in Range(all_cutting_plans) :
       /\ Len(b.cuts) = 2
       /\ b.stock_length - b.remaining = 9505
       /\ Lowest(b.utilization) = <<1901, 20>>

\* The pieces of the requirements reqs, requirement by requirement, unit by
\* unit.
RECURSIVE Units(_)
Units(reqs) ==
  IF reqs = <<>> THEN <<>>
  ELSE [k \in 1..Head(reqs).quantity |->
          [bar_mark |-> Head(reqs).bar_mark, length |-> Head(reqs).cut_length]]
       \o Units(Tail(reqs))

CutLengthsIn(data) == {data[i].cut_length : i \in 1..Len(data)}

NonIncreasing(items) ==
  \A i, j \in 1..Len(items) : i < j => items[i].length >= items[j].length

\* Among the pieces of the current diameter, those of one length appear in
\* items in requirement input order, then unit order, and items holds nothing
\* else.
TiesInInputOrder(items) ==
  /\ \A len \in CutLengthsIn(data_to_optimize) :
       SelectSeq(items, LAMBDA p : p.length = len)
         = Units(SelectSeq(data_to_optimize,
                           LAMBDA r : r.diameter = CurDiameter /\ r.cut_length = len))
  /\ \A i \in 1..Len(items) : items[i].length \in CutLengthsIn(data_to_optimize)

\* The step puts the piece p as the last cut of a bar that is new or changed.
Places(p) ==
  \E i \in 1..Len(stock_bars') :
    /\ i > Len(stock_bars) \/ stock_bars'[i] # stock_bars[i]
    /\ LET c == stock_bars'[i].cuts[Len(stock_bars'[i].cuts)]
       IN c.bar_mark = p.bar_mark /\ c.length = p.length

\* C22 as stated: within a diameter group the pos-th piece packed is the
\* pos-th of the group's pieces taken in non-increasing length order, pieces of
\* equal length in requirement input order, then unit order.
C22_DecreasingOrder_AsStated ==
  [][(pc = "pack" /\ pos' = pos + 1) =>
       LET order == standard_items \o oversized_items
       IN /\ NonIncreasing(order)
          /\ TiesInInputOrder(order)
          /\ Places(order[pos])
    ]_vars

\* C22 amended: the pieces no longer than stock_length are packed first, in
\* non-increasing length order, and the oversized pieces after them, in
\* non-increasing length order too; pieces of equal length in requirement
\* input order, then unit order.
C22_DecreasingOrder ==
  [][(pc = "pack" /\ pos' = pos + 1) =>
       LET order == standard_items \o oversized_items
       IN /\ NonIncreasing(standard_items)
          /\ NonIncreasing(oversized_items)
          /\ \A i \in 1..Len(standard_items) : standard_items[i].length <= stock_length
          /\ \A i \in 1..Len(oversized_items) : oversized_items[i].length > stock_length
          /\ TiesInInputOrder(order)
          /\ Places(order[pos])
    ]_vars

\* Three pieces of one length, two of "A" and one of "B" listed after it, have
\* been packed in that order.
C22_Witness ==
  /\ pc = "pack"
  /\ pos = 4
  /\ Len(standard_items) = 3
  /\ standard_items[2].bar_mark = <<"A">>
  /\ standard_items[3].bar_mark = <<"B">>
  /\ standard_items[1].length = standard_items[3].length

\* The bars are numbered 1..Len(bars) in order, and every bar of the
\* configured stock length has a lower id than every special-order bar.
NumberedFromOne(bars) ==
  /\ \A i \in 1..Len(bars) : bars[i].stock_id = i
  /\ \A i, j \in 1..Len(bars) :
       (bars[i].stock_length <= stock_length /\ bars[j].stock_length > stock_length)
         => bars[i].stock_id < bars[j].stock_id

\* C23: bar ids: the bars of each diameter, during packing and in the plan,
\* carry the ids 1..bar_count in creation order, the numbering restarting at 1
\* for every diameter, standard bars numbered before special-order bars.
C23_BarIds ==
  /\ pc = "pack" => NumberedFromOne(stock_bars)
  /\ \A dia \in Diameters : NumberedFromOne(BarsOf(all_cutting_plans, dia))

\* The plan holds two bars of one diameter, numbered 1 and 2, then a bar of
\* another diameter, numbered 1 again.
C23_Witness ==
  /\ pc = "done"
  /\ Len(all_cutting_plans) = 3
  /\ [i \in 1..3 |-> all_cutting_plans[i].stock_id] = <<1, 2, 1>>
  /\ all_cutting_plans[2].diameter # all_cutting_plans[3].diameter

\* The requirements of one diameter, in their relative order.
RequirementsOf(dia) == SelectSeq(data_to_optimize, LAMBDA r : r.diameter = dia)

\* The bars first-fit builds from the first n of the pieces items, numbered
\* from 1, knowing nothing but items, dia, stock_length and the tolerance.
RECURSIVE PackedAlone(_, _, _)
PackedAlone(items, n, dia) ==
  IF n = 0 THEN <<>>
  ELSE LET bars == PackedAlone(items, n - 1, dia)
           i == FirstFit(bars, items[n].length)
       IN IF ~IsStandard(items[n].length)
            THEN Append(bars, NewSpecialBar(Len(bars) + 1, dia, items[n]))
          ELSE IF i # 0 THEN [bars EXCEPT ![i] = PlaceOn(@, items[n])]
          ELSE Append(bars, NewStandardBar(Len(bars) + 1, dia, items[n]))

\* What one diameter's requirements alone determine: its bars and its line.
GroupAlone(dia) ==
  LET sorted_items == SortedDesc(Units(RequirementsOf(dia)))
      order == StandardOf(sorted_items) \o OversizedOf(sorted_items)
      bars == PackedAlone(order, Len(order), dia)
  IN [bars |-> bars,
      line |-> ProcurementLine(dia, bars, OversizedOf(sorted_items))]

\* The sum of the values of a function, taken in no particular order.
RECURSIVE SumOver(_)
SumOver(f) ==
  IF DOMAIN f = {} THEN 0
  ELSE LET d == CHOOSE d \in DOMAIN f : TRUE
       IN f[d] + SumOver([e \in DOMAIN f \ {d} |-> f[e]])

DiametersIn(data) == {data[i].diameter : i \in 1..Len(data)}

\* C24: diameter-group independence: in the result, the bars (with their
\* cuts) and the ProcurementLine of every diameter are those its own
\* requirements, in their relative order, give with stock_length and the
\* tolerance, whatever the other diameters' requirements are; the grand totals
\* are the sums of the lines' values over the set of diameters, in any order.
C24_GroupIndependence ==
  pc = "done" =>
    LET dias == DiametersIn(data_to_optimize)
        lines == {procurement_summary[k] : k \in 1..Len(procurement_summary)}
        line_of(d) == CHOOSE line \in lines : line.diameter = d
    IN /\ {line.diameter : line \in lines} = dias
       /\ Len(procurement_summary) = Cardinality(dias)
       /\ \A line \in lines :
            LET alone == GroupAlone(line.diameter)
            IN /\ BarsOf(all_cutting_plans, line.diameter) = alone.bars
               /\ line = alone.line
       /\ total_waste_all = SumOver([d \in dias |-> line_of(d).waste])
       /\ total_stock_used_all = SumOver([d \in dias |-> line_of(d).quantity])
       /\ total_weight_all = SumOver([d \in dias |-> line_of(d).total_weight])

\* The result covers two diameters, each with a bar of its own carrying waste.
C24_Witness ==
  /\ pc = "done"
  /\ Len(procurement_summary) = 2
  /\ procurement_summary[1].diameter # procurement_summary[2].diameter
  /\ procurement_summary[1].waste > 0
  /\ procurement_summary[2].waste > 0

\* The stock-length field that stands for the "Mixed" marker.
Mixed == <<>>

\* C25: mixed marker: a diameter's ProcurementLine carries the marker exactly
\* when the plan holds at least one special-order bar (a bar longer than the
\* configured stock length, built for an oversized piece) of that diameter;
\* otherwise its stock-length field is the configured stock_length.
C25_MixedMarker ==
  \A line \in Range(procurement_summary) :
    LET special == \E b \in Range(all_cutting_plans) :
                     /\ b.diameter = line.diameter
                     /\ b.stock_length > stock_length
                     /\ SpecialOrderShape(b)
    IN /\ line.stock_length = Mixed <=> special
       /\ ~special => line.stock_length = <<stock_length>>

\* The summary holds a line with the marker and a line with the configured
\* stock length.
C25_Witness ==
  /\ pc = "done"
  /\ Len(procurement_summary) = 2
  /\ procurement_summary[1].stock_length = Mixed
  /\ procurement_summary[2].stock_length = <<stock_length>>

\* C26: first-fit tightness: in the final plan, for two standard bars of one
\* diameter with ids i < j, bar i's remaining is strictly less than c.length +
\* tolerance for every cut c of bar j.
C26_FirstFitTightness ==
  pc = "done" =>
    \A bi, bj \in Range(all_cutting_plans) :
      (/\ bi.diameter = bj.diameter
       /\ bi.stock_length = stock_length
       /\ bj.stock_length = stock_length
       /\ bi.stock_id < bj.stock_id)
      => \A k \in 1..Len(bj.cuts) :
           bi.remaining < bj.cuts[k].length + cutting_tolerance

\* Two 5 m pieces on 10 m stock with a 5 mm kerf: the first bar keeps 5 m, 5 mm
\* short of taking the second piece, which opened the second bar.
C26_Witness ==
  /\ pc = "done"
  /\ cutting_tolerance = 5
  /\ Len(all_cutting_plans) >= 2
  /\ all_cutting_plans[1].diameter = all_cutting_plans[2].diameter
  /\ all_cutting_plans[1].remaining = 5000
  /\ all_cutting_plans[2].stock_length = stock_length
  /\ all_cutting_plans[2].cuts[1].length = 5000

\* The cuts of the plan's bars of one diameter with a given identifier and
\* length, counted.
CutCount(dia, mark, len) ==
  LET bars == BarsOf(all_cutting_plans, dia)
  IN SumSeq([i \in 1..Len(bars) |->
       Cardinality({k \in 1..Len(bars[i].cuts) :
                      /\ bars[i].cuts[k].bar_mark = mark
                      /\ bars[i].cuts[k].length = len})])

\* The summed quantity of the requirements with that diameter, identifier and
\* length.
RequiredCount(dia, mark, len) ==
  SumSeq([i \in 1..Len(data_to_optimize) |->
            IF /\ data_to_optimize[i].diameter = dia
               /\ data_to_optimize[i].bar_mark = mark
               /\ data_to_optimize[i].cut_length = len
            THEN data_to_optimize[i].quantity ELSE 0])

\* C27: piece-to-cut bijection: in the result, for the diameter, identifier
\* and length of every requirement, the number of cuts carrying them on the
\* diameter's bars is the summed quantity of the requirements carrying them,
\* and the plan holds as many cuts as there are pieces, so no cut is of
\* anything else; and no bar, during packing or in the plan, is without a cut.
C27_PieceCutBijection ==
  /\ \A i \in 1..Len(stock_bars) : Len(stock_bars[i].cuts) >= 1
  /\ \A i \in 1..Len(all_cutting_plans) : Len(all_cutting_plans[i].cuts) >= 1
  /\ pc = "done" =>
       /\ \A i \in 1..Len(data_to_optimize) :
            LET r == data_to_optimize[i]
            IN CutCount(r.diameter, r.bar_mark, r.cut_length)
                 = RequiredCount(r.diameter, r.bar_mark, r.cut_length)
       /\ SumSeq([i \in 1..Len(all_cutting_plans) |-> Len(all_cutting_plans[i].cuts)])
            = SumSeq([i \in 1..Len(data_to_optimize) |-> data_to_optimize[i].quantity])

\* One requirement of quantity 2 ended as one cut on each of two bars, and a
\* second requirement as a cut of its own.
C27_Witness ==
  /\ pc = "done"
  /\ Len(data_to_optimize) = 2
  /\ data_to_optimize[1].quantity = 2
  /\ Len(all_cutting_plans) = 3
  /\ all_cutting_plans[1].cuts[1].bar_mark = all_cutting_plans[2].cuts[1].bar_mark
  /\ all_cutting_plans[3].cuts[1].bar_mark # all_cutting_plans[1].cuts[1].bar_mark

\* ceil(a / b) for a >= 0, b > 0.
CeilDiv(a, b) == (a + b - 1) \div b

\* C28 in exact arithmetic (lengths in whole millimetres): when the splitting
\* loop of a requirement of length L > stock_length S with lap P < S has ended,
\* it has produced exactly N = 1 + ceil((L - S) / (S - P)) >= 2 segments; those
\* before the last have cut length S and are not final; the last is final,
\* its cut the length left plus the lap, at most S.
C28_SegmentCount_Exact ==
  (pc = "splice_loop" /\ ~(remaining_length > 0) /\ CurLap < stock_length) =>
    LET L == CurItem.cut_length
        S == stock_length
        P == CurLap
        N == 1 + CeilDiv(L - S, S - P)
        left(i) == L - S - (i - 2) * (S - P)
    IN /\ Len(pieces) = N
       /\ N >= 2
       /\ \A i \in 1..(N - 1) : pieces[i].cut = S
       /\ \A i \in 2..(N - 1) : left(i) + P > S
       /\ left(N) + P <= S
       /\ pieces[N].cut = left(N) + P

\* C28: segment count, of the loop as the code runs it, in binary64: for a
\* requirement of length L mm > stock_length S with lap P = lap_factor x
\* diameter mm < S, the loop ends with exactly N = 1 + ceil((L - S) / (S - P))
\* >= 2 segments, those before the last of cut length S, the last the final
\* segment, its cut (to rounding) the length left plus the lap, at most S.
C28_SegmentCount ==
  (pc = "splice_loop" /\ ~FloatPositive(remaining_length)) =>
    LET L == CurItem.cut_length
        S == stock_length
        P == lap_factor * CurItem.diameter
        N == 1 + CeilDiv(L - S, S - P)
        left(i) == L - S - (i - 2) * (S - P)
    IN /\ P < S
       /\ Len(pieces) = N
       /\ N >= 2
       /\ \A i \in 1..(N - 1) : pieces[i].cut = <<S, 0>>
       /\ left(N) + P <= S
       /\ pieces[N].cut[1] = left(N) + P

\* The bars old are still there in new, each with its cuts kept as they were
\* (new cuts only after them) and with no more remaining than before.
BarsOnlyGrow(old, new) ==
  /\ Len(new) >= Len(old)
  /\ \A i \in 1..Len(old) :
       /\ Len(new[i].cuts) >= Len(old[i].cuts)
       /\ SubSeq(new[i].cuts, 1, Len(old[i].cuts)) = old[i].cuts
       /\ new[i].remaining <= old[i].remaining

\* C29: cuts ordered within a bar: on every bar of the final plan the cuts
\* are recorded in non-increasing length order; a packing step never modifies
\* or removes a cut of a bar and never increases a bar's remaining; a bar in
\* the plan does not change any more.
C29_CutsOrdered ==
  /\ [](pc = "done" => \A b \in Range(all_cutting_plans) : NonIncreasing(b.cuts))
  /\ [][(pc = "pack" /\ pc' = "pack") => BarsOnlyGrow(stock_bars, stock_bars')]_vars
  /\ [][pc # "optimize" =>
          /\ Len(all_cutting_plans') >= Len(all_cutting_plans)
          /\ SubSeq(all_cutting_plans', 1, Len(all_cutting_plans)) = all_cutting_plans
       ]_vars

\* A finished bar holds a longer cut followed by a shorter one.
C29_Witness ==
  /\ pc = "done"
  /\ \E b \in Range(all_cutting_plans) :
       /\ Len(b.cuts) = 2
       /\ b.cuts[1].length > b.cuts[2].length

\* The output from position k on is made of the blocks derived from the
\* inputs j..last, in input order: for a requirement no longer than the stock
\* the requirement itself, for a longer one n >= 2 records in a row carrying
\* its identifier with the suffixes (1/n) .. (n/n), its diameter and quantity.
RECURSIVE InInputOrder(_, _, _)
InInputOrder(j, k, last) ==
  IF j > last THEN k = Len(processed_data) + 1
  ELSE /\ k <= Len(processed_data)
       /\ IF cutting_data[j].cut_length <= stock_length
          THEN /\ processed_data[k] = cutting_data[j]
               /\ InInputOrder(j + 1, k + 1, last)
          ELSE /\ Len(processed_data[k].bar_mark) = 6
               /\ LET n == processed_data[k].bar_mark[5]
                  IN /\ n >= 2
                     /\ k + n - 1 <= Len(processed_data)
                     /\ \A i \in 1..n :
                          LET r == processed_data[k + i - 1]
                          IN /\ r.bar_mark = cutting_data[j].bar_mark
                                               \o <<" (", i, "/", n, ")">>
                             /\ r.diameter = cutting_data[j].diameter
                             /\ r.quantity = cutting_data[j].quantity
                     /\ InInputOrder(j + 1, k + n, last)

\* C30: splicer frame and ordering: no step changes the input list or a
\* record of it; between requirements the output holds, in input order, the
\* records derived from the requirements handled so far, a spliced
\* requirement's segments in a row, numbered 1..N, in place of the original;
\* at return this is the whole input, and it is what the optimizer receives.
C30_SplicerFrameOrder ==
  /\ [][cutting_data' = cutting_data]_vars
  /\ [](enable_splicing =>
          /\ pc = "splice" => InInputOrder(1, 1, item_idx - 1)
          /\ pc \notin {"splice", "splice_loop"} =>
               /\ InInputOrder(1, 1, Len(cutting_data))
               /\ data_to_optimize = processed_data)

\* The splicer has returned: the first requirement passed through unchanged,
\* the second one replaced by its segments.
C30_Witness ==
  /\ enable_splicing
  /\ pc = "optimize"
  /\ Len(cutting_data) = 2
  /\ Len(processed_data) >= 3
  /\ processed_data[1] = cutting_data[1]
  /\ Len(processed_data[2].bar_mark) = 6
====
